---------------------------- MODULE Spec2Model ----------------------------
(***************************************************************************)
(* A model of the GraphQL query front end: the lexer of src/tokenizer.rs   *)
(* (TokenStream) and the grammar of src/query_grammar.rs (parse_query).    *)
(*                                                                         *)
(* A source text is a sequence of characters; a character is a one-letter  *)
(* string, except the two multi-byte samples BOM (U+FEFF, three bytes of   *)
(* UTF-8) and EAcute (U+00E9, two bytes).  Offsets and token lengths are   *)
(* byte counts, as in the code; columns are character counts.              *)
(***************************************************************************)
EXTENDS Integers, Sequences, FiniteSets, TLC

VARIABLES
    buf,        \* TokenStream.buf: the source text
    off,        \* TokenStream.off: byte offset of the cursor
    position,   \* TokenStream.position: [line, column]
    saved,      \* the Checkpoint the caller holds, or NoCheckpoint
    mark,       \* what the stream was when the checkpoint was taken
    result      \* what the last operation returned

vars == <<buf, off, position, saved, mark, result>>

-----------------------------------------------------------------------------
(* Characters *)

BOM == "U+FEFF"
EAcute == "U+00E9"

Utf8Len(c) == IF c = BOM THEN 3 ELSE IF c = EAcute THEN 2 ELSE 1

Punct1 == {"!", "$", ":", "=", "@", "|", "(", ")", "[", "]", "{", "}"}

Digits == {"0", "1", "2", "3", "4", "5", "6", "7", "8", "9"}

Letters ==
    {"a", "b", "c", "d", "e", "f", "g", "h", "i", "j", "k", "l", "m",
     "n", "o", "p", "q", "r", "s", "t", "u", "v", "w", "x", "y", "z",
     "A", "B", "C", "D", "E", "F", "G", "H", "I", "J", "K", "L", "M",
     "N", "O", "P", "Q", "R", "S", "T", "U", "V", "W", "X", "Y", "Z"}

NameStart == Letters \cup {"_"}

NameChar == NameStart \cup Digits

\* the characters that end the scan of a numeric literal
NumberEnd == {" ", "\n", "\r", "\t", ",", "#"} \cup Punct1

\* the characters skipped when the byte order mark is not one of them
Ignored_but_BOM == {"\t", " ", "\r", "\n", ","}

\* the characters skip_whitespace passes over
Ignored == {BOM, "\t", " ", "\r", "\n", ","}

-----------------------------------------------------------------------------
(* Strings as sequences of characters *)

\* s.len(): one byte for each character, and one more for each character of
\* two bytes or more, of three bytes or more
ByteLen(s) ==
    Len(s) + Cardinality({i \in 1..Len(s) : Utf8Len(s[i]) >= 2})
           + Cardinality({i \in 1..Len(s) : Utf8Len(s[i]) >= 3})

Prefix(s, n) == SubSeq(s, 1, n)

Drop(s, n) == SubSeq(s, n + 1, Len(s))

StartsWith(s, p) == Len(s) >= Len(p) /\ Prefix(s, Len(p)) = p

EndsWith(s, p) == Len(s) >= Len(p) /\ Drop(s, Len(s) - Len(p)) = p

AllDigits(s) == \A i \in 1..Len(s) : s[i] \in Digits

\* the least k in lo..hi such that the first k characters of s take n
\* bytes or more, found by bisection
RECURSIVE CharsIn(_, _, _, _)
CharsIn(s, lo, hi, n) ==
    IF lo >= hi THEN lo
    ELSE LET mid == (lo + hi) \div 2
         IN IF ByteLen(SubSeq(s, 1, mid)) >= n
            THEN CharsIn(s, lo, mid, n)
            ELSE CharsIn(s, mid + 1, hi, n)

\* the number of characters in the first n bytes of s (n on a character
\* boundary): n at most, since a character takes a byte or more
CharCount(s, n) ==
    LET most == IF n < Len(s) THEN n ELSE Len(s)
    IN IF ByteLen(SubSeq(s, 1, most)) = n THEN most ELSE CharsIn(s, 0, most, n)

\* &buf[o..]
Rest(o) == Drop(buf, CharCount(buf, o))

\* &buf[o..][..len]
Slice(o, len) == Prefix(Rest(o), CharCount(Rest(o), len))

-----------------------------------------------------------------------------
(* Numeric literal shapes *)

\* check_int without the ban on a zero after the sign
check_int_zero_after_sign(value) ==
    \/ value = <<"0">>
    \/ value = <<"-", "0">>
    \/ /\ ~StartsWith(value, <<"0">>)
       /\ value # <<"-">>
       /\ AllDigits(Drop(value, 1))

check_int(value) ==
    \/ value = <<"0">>
    \/ value = <<"-", "0">>
    \/ /\ ~StartsWith(value, <<"0">>)
       /\ value # <<"-">>
       /\ ~StartsWith(value, <<"-", "0">>)
       /\ AllDigits(Drop(value, 1))

check_dec(value) == Len(value) > 0 /\ AllDigits(value)

\* check_exp with the sign optional
check_exp_unsigned(value) ==
    LET digits == IF StartsWith(value, <<"-">>) \/ StartsWith(value, <<"+">>)
                  THEN Drop(value, 1)
                  ELSE value
    IN Len(digits) >= 1 /\ AllDigits(digits)

check_exp(value) ==
    /\ StartsWith(value, <<"-">>) \/ StartsWith(value, <<"+">>)
    /\ Len(value) >= 2
    /\ AllDigits(Drop(value, 1))

\* exponent and real are 0-based indexes into value, or -1 for None
check_float(value, exponent, real) ==
    IF exponent >= 0 /\ real >= 0
    THEN IF exponent < real
         THEN FALSE
         ELSE /\ check_int(Prefix(value, real))
              /\ check_dec(SubSeq(value, real + 2, exponent))
              /\ check_exp(Drop(value, exponent + 1))
    ELSE IF exponent >= 0
    THEN check_int(Prefix(value, exponent)) /\ check_exp(Drop(value, exponent + 1))
    ELSE check_int(Prefix(value, real)) /\ check_dec(Drop(value, real + 1))

-----------------------------------------------------------------------------
(* peek_token *)

Ok(kind, len) == [ok |-> TRUE, kind |-> kind, len |-> len]

Err(msg) == [ok |-> FALSE, err |-> msg]

EndOfInput == Err("end of input")

\* the 1-based index of the first character at or after k that ends a name,
\* or Len(s) + 1
RECURSIVE NameEnd(_, _)
NameEnd(s, k) ==
    IF k > Len(s) \/ s[k] \notin NameChar THEN k ELSE NameEnd(s, k + 1)

RECURSIVE NumberEndAt(_, _)
NumberEndAt(s, k) ==
    IF k > Len(s) \/ s[k] \in NumberEnd THEN k ELSE NumberEndAt(s, k + 1)

\* 0-based index of the last character of value that is in set, or -1
LastIn(value, set) ==
    LET hits == {i \in 1..Len(value) : value[i] \in set}
    IN IF hits = {} THEN -1
       ELSE (CHOOSE i \in hits : \A j \in hits : j <= i) - 1

peek_number(s) ==
    LET n == NumberEndAt(s, 2) - 1
        value == Prefix(s, n)
        \* each "." and each "e" or "E" overwrites the index kept before
        real == LastIn(value, {"."})
        exponent == LastIn(value, {"e", "E"})
    IN IF exponent >= 0 \/ real >= 0
       THEN IF ~check_float(value, exponent, real)
            THEN Err("unsupported float")
            ELSE Ok("FloatValue", ByteLen(value))
       ELSE IF ~check_int(value)
            THEN Err("unsupported integer")
            ELSE Ok("IntValue", ByteLen(value))

TripleQuote == <<"\"", "\"", "\"">>

\* every place where the three quotes are found, overlapping or not
RECURSIVE match_overlapping(_, _)
match_overlapping(tail, k) ==
    IF k + 2 > Len(tail) THEN <<>>
    ELSE IF SubSeq(tail, k, k + 2) = TripleQuote
         THEN <<k - 1>> \o match_overlapping(tail, k + 1)
         ELSE match_overlapping(tail, k + 1)

\* tail.match_indices("\"\"\""): the matches do not overlap; the 0-based
\* character indexes of the matches at or after character k (1-based)
RECURSIVE match_indices(_, _)
match_indices(tail, k) ==
    IF k + 2 > Len(tail) THEN <<>>
    ELSE IF SubSeq(tail, k, k + 2) = TripleQuote
         THEN <<k - 1>> \o match_indices(tail, k + 3)
         ELSE match_indices(tail, k + 1)

peek_block_string(tail) ==
    LET ends == match_indices(tail, 1)
        good == {i \in 1..Len(ends) : ~EndsWith(Prefix(tail, ends[i]), <<"\\">>)}
    IN IF good = {}
       THEN Err("unterminated block string value")
       ELSE LET first == CHOOSE i \in good : \A j \in good : i <= j
            IN Ok("BlockString", ByteLen(Prefix(tail, ends[first])) + 6)

\* the first quote at or after k, whatever comes before it
RECURSIVE StringEnd_any_quote(_, _)
StringEnd_any_quote(s, k) ==
    IF k > Len(s) THEN 0
    ELSE IF s[k] = "\"" THEN k
    ELSE StringEnd_any_quote(s, k + 1)

\* the 1-based index of the first quote at or after k whose previous
\* character is not a backslash, or 0
RECURSIVE StringEnd(_, _)
StringEnd(s, k) ==
    IF k > Len(s) THEN 0
    ELSE IF s[k] = "\"" /\ s[k - 1] # "\\" THEN k
    ELSE StringEnd(s, k + 1)

peek_string(s) ==
    LET k == StringEnd(s, 2)
    IN IF k > 0
       THEN Ok("StringValue", ByteLen(Prefix(s, k - 1)) + 1)
       ELSE Ok("Name", ByteLen(s))

peek_token(o) ==
    LET s == Rest(o)
    IN IF s = <<>> THEN EndOfInput
       ELSE LET cur_char == s[1]
            IN CASE cur_char \in Punct1 -> Ok("Punctuator", 1)
                 [] cur_char = "." ->
                        IF StartsWith(Drop(s, 1), <<".", ".">>)
                        THEN Ok("Punctuator", 3)
                        ELSE Err("bare dot")
                 [] cur_char \in NameStart ->
                        Ok("Name", ByteLen(Prefix(s, NameEnd(s, 2) - 1)))
                 [] cur_char \in Digits \cup {"-"} -> peek_number(s)
                 [] cur_char = "\"" ->
                        IF StartsWith(Drop(s, 1), <<"\"", "\"">>)
                        THEN peek_block_string(Drop(s, 3))
                        ELSE peek_string(s)
                 [] OTHER -> Err("unexpected character")

-----------------------------------------------------------------------------
(* Position tracking and skipping *)

Count(s, c) == Cardinality({i \in 1..Len(s) : s[i] = c})

\* update_position with the column advanced by the bytes of the span
update_position_by_bytes(st, len) ==
    LET val == Slice(st.off, len)
        lines == Count(val, "\n")
    IN [off |-> st.off + len,
        position |->
            IF lines > 0
            THEN [line |-> st.position.line + lines,
                  column |-> ByteLen(Drop(val, LastIn(val, {"\n"}) + 1)) + 1]
            ELSE [line |-> st.position.line,
                  column |-> st.position.column + len]]

\* a stream is [off, position]; update_position advances it by len bytes
update_position(st, len) ==
    LET val == Slice(st.off, len)
        lines == Count(val, "\n")
    IN [off |-> st.off + len,
        position |->
            IF lines > 0
            THEN [line |-> st.position.line + lines,
                  column |-> Len(Drop(val, LastIn(val, {"\n"}) + 1)) + 1]
            ELSE [line |-> st.position.line,
                  column |-> st.position.column + Len(val)]]

\* the number of characters of s, from k on, that the loop passes over
RECURSIVE SkipTo(_, _, _)
SkipTo(s, k, inComment) ==
    IF k > Len(s) THEN Len(s)
    ELSE IF inComment
         THEN SkipTo(s, k + 1, ~(s[k] \in {"\r", "\n"}))
         ELSE IF s[k] \in Ignored THEN SkipTo(s, k + 1, FALSE)
              ELSE IF s[k] = "#" THEN SkipTo(s, k + 1, TRUE)
              ELSE k - 1

\* idx holds what the loop breaks with; the stream moves by that number
skip_whitespace(st) ==
    LET s == Rest(st.off)
        idx == {ByteLen(Prefix(s, SkipTo(s, 1, FALSE)))}
    IN CHOOSE after \in {IF num > 0 THEN update_position(st, num) ELSE st : num \in idx} :
           TRUE

-----------------------------------------------------------------------------
(* The stream's operations *)

Stream == [off |-> off, position |-> position]

\* TokenStream::new, on the text in buf
new == skip_whitespace([off |-> 0, position |-> [line |-> 1, column |-> 1]])

\* uncons that returns the token and leaves the stream on it
uncons_in_place(st) ==
    LET p == peek_token(st.off)
    IN IF ~p.ok
       THEN [ret |-> p, st |-> st]
       ELSE [ret |-> [ok |-> TRUE, kind |-> p.kind, value |-> Slice(st.off, p.len)],
             st |-> st]

\* uncons that steps over the character it could not read
uncons_past_error(st) ==
    LET p == peek_token(st.off)
    IN IF ~p.ok
       THEN [ret |-> p,
             st |-> IF Rest(st.off) = <<>> THEN st
                    ELSE update_position(st, Utf8Len(Head(Rest(st.off))))]
       ELSE [ret |-> [ok |-> TRUE, kind |-> p.kind, value |-> Slice(st.off, p.len)],
             st |-> skip_whitespace(update_position(st, p.len))]

\* uncons on stream st: the value returned and the stream afterwards.  p is
\* what peek_token returned and u the stream after update_position
uncons(st) ==
    CHOOSE r \in
        {IF ~p.ok
         THEN [ret |-> p, st |-> st]
         ELSE [ret |-> [ok |-> TRUE, kind |-> p.kind, value |-> Slice(st.off, p.len)],
               st |-> CHOOSE after \in
                          {skip_whitespace(u) : u \in {update_position(st, p.len)}} : TRUE] :
         p \in {peek_token(st.off)}} : TRUE

checkpoint(st) == [position |-> st.position, off |-> st.off]

\* a reset that puts back the offset and keeps the position
reset_offset_only(st, c) == [off |-> c.off, position |-> st.position]

\* a reset that leaves the stream where it is
reset_nowhere(st, c) == st

reset(st, c) == [off |-> c.off, position |-> c.position]

-----------------------------------------------------------------------------
(* Parsers.  A parser is run on a stream and returns what combine calls    *)
(* ConsumedOk, EmptyOk, ConsumedErr or EmptyErr: ok, whether a token was    *)
(* committed, the stream afterwards, and the value or the error.  A        *)
(* failing parser may leave the stream advanced; the combinators that try  *)
(* an alternative go back with checkpoint and reset.                       *)

None == [none |-> TRUE]

Some(x) == [some |-> x]

POk(consumed, st, val) == [ok |-> TRUE, consumed |-> consumed, st |-> st, val |-> val]

PErr(consumed, st, err) == [ok |-> FALSE, consumed |-> consumed, st |-> st, err |-> err]

\* a closure that aborts the process (unimplemented!, expect)
Panic(msg) == [ok |-> FALSE, panic |-> TRUE, err |-> msg]

IsPanic(r) == "panic" \in DOMAIN r

\* combine's parsers, as the values the grammar functions build; f names a
\* closure and parser(f) a grammar function
satisfy(predicate) == [op |-> "satisfy", predicate |-> predicate]

map(p, f) == [op |-> "map", p |-> p, f |-> f]

and_then(p, f) == [op |-> "and_then", p |-> p, f |-> f]

and(p, q) == [op |-> "and", p |-> p, q |-> q]

with(p, q) == [op |-> "with", p |-> p, q |-> q]

skip(p, q) == [op |-> "skip", p |-> p, q |-> q]

or(p, q) == [op |-> "or", p |-> p, q |-> q]

optional(p) == [op |-> "optional", p |-> p]

many(p) == [op |-> "many", p |-> p]

many1(p) == [op |-> "many1", p |-> p]

eof == [op |-> "eof"]

parser(f) == [op |-> "parser", f |-> f]

\* helpers: the token matchers
kind(k) == satisfy([kind |-> k])

punct(s) == satisfy([kind |-> "Punctuator", value |-> s])

ident(s) == satisfy([kind |-> "Name", value |-> s])

name == map(kind("Name"), "value")

-----------------------------------------------------------------------------
(* Literal decoders *)

\* the width of Number's integer
IntBits == 5

IntMax == 2 ^ (IntBits - 1) - 1

IntMin == -(2 ^ (IntBits - 1))

DigitValue(c) == CHOOSE d \in 0..9 : <<"0", "1", "2", "3", "4", "5", "6", "7", "8", "9">>[d + 1] = c

\* digits accumulated with wrapping arithmetic
RECURSIVE wrapping_digits(_, _, _)
wrapping_digits(digits, acc, positive) ==
    IF digits = <<>> THEN [ok |-> TRUE, val |-> acc]
    ELSE LET d == DigitValue(Head(digits))
             sum == IF positive THEN acc * 10 + d ELSE acc * 10 - d
         IN wrapping_digits(Tail(digits), ((sum - IntMin) % (2 * (IntMax + 1))) + IntMin,
                            positive)

\* the loop of the integer's from_str: checked_mul, then checked_add or
\* checked_sub
RECURSIVE parse_digits(_, _, _)
parse_digits(digits, acc, positive) ==
    IF digits = <<>> THEN [ok |-> TRUE, val |-> acc]
    ELSE IF Head(digits) \notin Digits
    THEN [ok |-> FALSE, err |-> "invalid digit found in string"]
    ELSE LET d == DigitValue(Head(digits))
             mul == acc * 10
             sum == IF positive THEN mul + d ELSE mul - d
         IN IF positive
            THEN IF mul > IntMax \/ sum > IntMax
                 THEN [ok |-> FALSE, err |-> "number too large to fit in target type"]
                 ELSE parse_digits(Tail(digits), sum, positive)
            ELSE IF mul < IntMin \/ sum < IntMin
                 THEN [ok |-> FALSE, err |-> "number too small to fit in target type"]
                 ELSE parse_digits(Tail(digits), sum, positive)

\* tok.value.parse()
parse_int(src) ==
    IF src = <<>> THEN [ok |-> FALSE, err |-> "cannot parse integer from empty string"]
    ELSE IF src \in {<<"+">>, <<"-">>}
    THEN [ok |-> FALSE, err |-> "invalid digit found in string"]
    ELSE IF Head(src) = "+" THEN parse_digits(Tail(src), 0, TRUE)
    ELSE IF Head(src) = "-" THEN parse_digits(Tail(src), 0, FALSE)
    ELSE parse_digits(src, 0, TRUE)

DataLinkEscape == "U+0010"

FormFeed == "U+000C"

\* the loop of unquote_string over the characters between the quotes
RECURSIVE unquote_chars(_)
unquote_chars(chars) ==
    IF chars = <<>> THEN [ok |-> TRUE, val |-> <<>>]
    ELSE LET c == Head(chars)
         IN IF c # "\\"
            THEN LET more == unquote_chars(Tail(chars))
                 IN IF more.ok THEN [ok |-> TRUE, val |-> <<c>> \o more.val] ELSE more
            ELSE IF Len(chars) < 2 THEN Panic("slash cant be and the end")
            ELSE LET e == chars[2]
                     out == CASE e \in {"\"", "\\", "/"} -> e
                              [] e = "b" -> DataLinkEscape
                              [] e = "f" -> FormFeed
                              [] e = "n" -> "\n"
                              [] e = "r" -> "\r"
                              [] e = "t" -> "\t"
                              [] OTHER -> ""
                 IN IF e = "u" THEN Panic("not yet implemented")
                    ELSE IF out = "" THEN [ok |-> FALSE, err |-> "bad escaped char"]
                    ELSE LET more == unquote_chars(Drop(chars, 2))
                         IN IF more.ok THEN [ok |-> TRUE, val |-> <<out>> \o more.val]
                            ELSE more

unquote_string(s) == unquote_chars(SubSeq(s, 2, Len(s) - 1))


White_Space == {" ", "\t", "\n", "\r"}

RECURSIVE trim_left(_)
trim_left(l) ==
    IF l # <<>> /\ Head(l) \in White_Space THEN trim_left(Tail(l)) ELSE l

RECURSIVE trim_right(_)
trim_right(l) ==
    IF l # <<>> /\ l[Len(l)] \in White_Space
    THEN trim_right(Prefix(l, Len(l) - 1))
    ELSE l

trim(l) == trim_right(trim_left(l))

strip_cr(l) == IF EndsWith(l, <<"\r">>) THEN Prefix(l, Len(l) - 1) ELSE l

\* str::lines: split at "\n", a final line ending adds no line, and a "\r"
\* at the end of a line is dropped
RECURSIVE lines(_)
lines(t) ==
    LET ends == {i \in 1..Len(t) : t[i] = "\n"}
    IN IF t = <<>> THEN <<>>
       ELSE IF ends = {} THEN <<strip_cr(t)>>
       ELSE LET i == CHOOSE e \in ends : \A j \in ends : e <= j
            IN <<strip_cr(Prefix(t, i - 1))>> \o lines(Drop(t, i))

\* line.replace of an escaped triple quote by a triple quote
RECURSIVE unescape_triple(_)
unescape_triple(l) ==
    IF l = <<>> THEN <<>>
    ELSE IF StartsWith(l, <<"\\">> \o TripleQuote)
    THEN TripleQuote \o unescape_triple(Drop(l, 4))
    ELSE <<Head(l)>> \o unescape_triple(Tail(l))

RECURSIVE block_lines(_, _, _)
block_lines(ls, k, indent) ==
    IF k > Len(ls) THEN <<>>
    ELSE unescape_triple(Drop(ls[k], indent)) \o <<"\n">> \o block_lines(ls, k + 1, indent)

unquote_block_string(s) ==
    LET ls == lines(SubSeq(s, 4, Len(s) - 3))
        widths == {Len(ls[k]) - Len(trim_left(ls[k])) : k \in 2..Len(ls)}
        indent == IF widths = {} THEN 0
                  ELSE CHOOSE w \in widths : \A v \in widths : w <= v
        stripped == IF ls = <<>> THEN <<>> ELSE trim(ls[1])
        first == IF Len(stripped) > 0 THEN stripped \o <<"\n">> ELSE <<>>
    IN [ok |-> TRUE, val |-> trim_right(first \o block_lines(ls, 2, indent))]

-----------------------------------------------------------------------------
(* The grammar *)

empty_selection == [items |-> <<>>]

directives ==
    many(map(and(with(punct(<<"@">>), name), parser("arguments")), "Directive"))

arguments ==
    map(optional(skip(with(punct(<<"(">>),
                           many1(and(skip(name, punct(<<":">>)), parser("value")))),
                      punct(<<")">>))),
        "unwrap_or_else(Vec::new)")

field ==
    map(and(and(and(and(name, optional(with(punct(<<":">>), name))),
                    parser("arguments")),
                parser("directives")),
            optional(parser("selection_set"))),
        "Field")

selection ==
    or(map(parser("field"), "Selection::Field"),
       with(punct(<<".", ".", ".">>),
            or(map(map(and(and(optional(map(with(ident(<<"o", "n">>), name),
                                            "TypeCondition::On")),
                               parser("directives")),
                           parser("selection_set")),
                       "InlineFragment"),
                   "Selection::InlineFragment"),
               map(map(and(name, parser("directives")), "FragmentSpread"),
                   "Selection::FragmentSpread"))))

selection_set ==
    map(skip(with(punct(<<"{">>), many1(parser("selection"))), punct(<<"}">>)),
        "SelectionSet")

variable_type == map(name, "VariableType::NamedType")

int_value == map(map(and_then(kind("IntValue"), "parse"), "Number"), "Value::Int")

string_value ==
    map(and_then(kind("StringValue"), "unquote_string"), "Value::String")

block_string_value ==
    map(and_then(kind("BlockString"), "unquote_block_string"), "Value::String")

value ==
    or(or(or(or(or(or(map(name, "Value::EnumValue"),
                      parser("int_value")),
                   parser("string_value")),
                parser("block_string_value")),
             map(with(punct(<<"$">>), name), "Value::Variable")),
          map(skip(with(punct(<<"[">>), many(parser("value"))), punct(<<"]">>)),
              "Value::ListValue")),
       map(skip(with(punct(<<"{">>),
                     many(and(skip(name, punct(<<":">>)), parser("value")))),
                punct(<<"}">>)),
           "Value::ObjectValue"))

default_value ==
    or(or(or(map(name, "Value::EnumValue"),
             parser("int_value")),
          parser("block_string_value")),
       map(skip(with(punct(<<"[">>), many(parser("default_value"))), punct(<<"]">>)),
           "Value::ListValue"))

query ==
    map(with(ident(<<"q", "u", "e", "r", "y">>), parser("operation_common")), "Query")

operation_common ==
    map(and(and(optional(name),
                map(optional(
                        skip(with(punct(<<"(">>),
                                  many1(map(and(and(skip(with(punct(<<"$">>), name),
                                                         punct(<<":">>)),
                                                    parser("variable_type")),
                                                optional(with(punct(<<"=">>),
                                                              parser("default_value")))),
                                            "VariableDefinition"))),
                             punct(<<")">>))),
                    "unwrap_or_else(Vec::new)")),
            parser("selection_set")),
        "(a, b, c)")

mutation ==
    map(with(ident(<<"m", "u", "t", "a", "t", "i", "o", "n">>),
             parser("operation_common")),
        "Mutation")

subscription ==
    map(with(ident(<<"s", "u", "b", "s", "c", "r", "i", "p", "t", "i", "o", "n">>),
             parser("operation_common")),
        "Subscription")

operation_definition ==
    or(or(or(map(parser("selection_set"), "OperationDefinition::SelectionSet"),
             map(parser("query"), "OperationDefinition::Query")),
          map(parser("mutation"), "OperationDefinition::Mutation")),
       map(parser("subscription"), "OperationDefinition::Subscription"))

fragment_definition ==
    map(and(and(and(with(ident(<<"f", "r", "a", "g", "m", "e", "n", "t">>), name),
                    map(with(ident(<<"o", "n">>), name), "TypeCondition::On")),
                parser("directives")),
            parser("selection_set")),
        "FragmentDefinition")

definition ==
    or(map(parser("operation_definition"), "Definition::Operation"),
       map(parser("fragment_definition"), "Definition::Fragment"))

\* the grammar function a parser(f) names
function(f) ==
    CASE f = "directives" -> directives
      [] f = "arguments" -> arguments
      [] f = "field" -> field
      [] f = "selection" -> selection
      [] f = "selection_set" -> selection_set
      [] f = "variable_type" -> variable_type
      [] f = "int_value" -> int_value
      [] f = "string_value" -> string_value
      [] f = "block_string_value" -> block_string_value
      [] f = "value" -> value
      [] f = "default_value" -> default_value
      [] f = "query" -> query
      [] f = "operation_common" -> operation_common
      [] f = "mutation" -> mutation
      [] f = "subscription" -> subscription
      [] f = "operation_definition" -> operation_definition
      [] f = "fragment_definition" -> fragment_definition
      [] f = "definition" -> definition

\* the closures the grammar maps over values
closure(f, v) ==
    CASE f = "value" -> v.value
      [] f = "Directive" -> [name |-> v[1], arguments |-> v[2]]
      [] f = "unwrap_or_else(Vec::new)" -> IF v = None THEN <<>> ELSE v.some
      [] f = "Field" ->
             LET name_or_alias == v[1][1][1][1]
                 opt_name == v[1][1][1][2]
             IN [name |-> IF opt_name = None THEN name_or_alias ELSE opt_name.some,
                 alias |-> IF opt_name = None THEN None ELSE Some(name_or_alias),
                 arguments |-> v[1][1][2],
                 directives |-> v[1][2],
                 selection_set |-> IF v[2] = None THEN empty_selection ELSE v[2].some]
      [] f = "Selection::Field" -> [tag |-> "Field", field |-> v]
      [] f = "TypeCondition::On" -> [On |-> v]
      [] f = "InlineFragment" ->
             [type_condition |-> v[1][1], selection_set |-> v[2], directives |-> v[1][2]]
      [] f = "Selection::InlineFragment" ->
             [tag |-> "InlineFragment",
              type_condition |-> v.type_condition,
              selection_set |-> v.selection_set,
              directives |-> v.directives]
      [] f = "FragmentSpread" -> [fragment_name |-> v[1], directives |-> v[2]]
      [] f = "Selection::FragmentSpread" ->
             [tag |-> "FragmentSpread",
              fragment_name |-> v.fragment_name,
              directives |-> v.directives]
      [] f = "SelectionSet" -> [items |-> v]
      [] f = "VariableType::NamedType" -> [NamedType |-> v]
      [] f = "Number" -> v
      [] f = "Value::Int" -> [Int |-> v]
      [] f = "Value::String" -> [String |-> v]
      [] f = "Value::EnumValue" -> [EnumValue |-> v]
      [] f = "Value::Variable" -> [Variable |-> v]
      [] f = "Value::ListValue" -> [ListValue |-> v]
      [] f = "Value::ObjectValue" -> [ObjectValue |-> v]
      [] f = "VariableDefinition" ->
             [name |-> v[1][1], var_type |-> v[1][2], default_value |-> v[2]]
      [] f = "(a, b, c)" -> <<v[1][1], v[1][2], v[2]>>
      [] f \in {"Query", "Mutation", "Subscription"} ->
             [name |-> v[1],
              selection_set |-> v[3],
              variable_definitions |-> v[2],
              directives |-> <<>>]
      [] f = "OperationDefinition::SelectionSet" -> [SelectionSet |-> v]
      [] f = "OperationDefinition::Query" -> [Query |-> v]
      [] f = "OperationDefinition::Mutation" -> [Mutation |-> v]
      [] f = "OperationDefinition::Subscription" -> [Subscription |-> v]
      [] f = "FragmentDefinition" ->
             [name |-> v[1][1][1],
              type_condition |-> v[1][1][2],
              directives |-> v[1][2],
              selection_set |-> v[2]]
      [] f = "Definition::Operation" -> [Operation |-> v]
      [] f = "Definition::Fragment" -> [Fragment |-> v]
      [] f = "Document" -> [definitions |-> v]

\* the closures and_then runs on a token: Ok, Err, or an abort
fallible(f, tok) ==
    CASE f = "parse" -> parse_int(tok.value)
      [] f = "unquote_string" -> unquote_string(tok.value)
      [] f = "unquote_block_string" -> unquote_block_string(tok.value)

\* satisfy's test of a token
matches(predicate, tok) ==
    /\ tok.kind = predicate.kind
    /\ "value" \in DOMAIN predicate => tok.value = predicate.value

\* p.parse_stream(input).  A lexer error does not commit: the stream is not
\* partial.  or, optional and many go back to a checkpoint when their parser
\* failed without committing.
RECURSIVE parse_stream(_, _)
parse_stream(p, input) ==
    CASE p.op = "parser" -> parse_stream(function(p.f), input)
      [] p.op = "satisfy" ->
             LET r == uncons(input)
             IN IF ~r.ret.ok THEN PErr(FALSE, r.st, r.ret.err)
                ELSE IF matches(p.predicate, r.ret) THEN POk(TRUE, r.st, r.ret)
                ELSE PErr(FALSE, r.st, "unexpected token")
      [] p.op = "map" ->
             LET r == parse_stream(p.p, input)
             IN IF r.ok THEN [r EXCEPT !.val = closure(p.f, r.val)] ELSE r
      [] p.op = "and_then" ->
             LET r == parse_stream(p.p, input)
             IN IF r.ok
                THEN LET x == fallible(p.f, r.val)
                     IN IF x.ok THEN [r EXCEPT !.val = x.val]
                        ELSE IF IsPanic(x)
                             THEN [ok |-> FALSE, consumed |-> TRUE, st |-> r.st,
                                   err |-> x.err, panic |-> TRUE]
                             ELSE PErr(r.consumed, r.st, x.err)
                ELSE r
      [] p.op = "and" ->
             LET r == parse_stream(p.p, input)
             IN IF r.ok
                THEN LET r2 == parse_stream(p.q, r.st)
                     IN IF r2.ok
                        THEN POk(r.consumed \/ r2.consumed, r2.st, <<r.val, r2.val>>)
                        ELSE [r2 EXCEPT !.consumed = r.consumed \/ r2.consumed]
                ELSE r
      [] p.op = "with" ->
             LET r == parse_stream(p.p, input)
             IN IF r.ok
                THEN [parse_stream(p.q, r.st) EXCEPT !.consumed = r.consumed \/ @]
                ELSE r
      [] p.op = "skip" ->
             LET r == parse_stream(p.p, input)
             IN IF r.ok
                THEN LET r2 == parse_stream(p.q, r.st)
                     IN IF r2.ok
                        THEN POk(r.consumed \/ r2.consumed, r2.st, r.val)
                        ELSE [r2 EXCEPT !.consumed = r.consumed \/ r2.consumed]
                ELSE r
      [] p.op = "or" ->
             LET r == parse_stream(p.p, input)
             IN IF r.ok THEN r
                ELSE IF r.consumed THEN r
                ELSE parse_stream(p.q, reset(r.st, checkpoint(input)))
      [] p.op = "optional" ->
             LET r == parse_stream(p.p, input)
             IN IF r.ok THEN [r EXCEPT !.val = Some(r.val)]
                ELSE IF r.consumed THEN r
                ELSE POk(FALSE, reset(r.st, checkpoint(input)), None)
      [] p.op = "many" ->
             LET r == parse_stream(p.p, input)
             IN IF r.ok
                THEN LET more == parse_stream(p, r.st)
                     IN IF more.ok
                        THEN POk(TRUE, more.st, <<r.val>> \o more.val)
                        ELSE [more EXCEPT !.consumed = TRUE]
                ELSE IF r.consumed THEN r
                ELSE POk(FALSE, reset(r.st, checkpoint(input)), <<>>)
      [] p.op = "many1" ->
             LET r == parse_stream(p.p, input)
             IN IF r.ok
                THEN LET more == parse_stream(many(p.p), r.st)
                     IN IF more.ok
                        THEN POk(r.consumed \/ more.consumed, more.st,
                                 <<r.val>> \o more.val)
                        ELSE [more EXCEPT !.consumed = TRUE]
                ELSE r
      [] p.op = "eof" ->
             LET r == uncons(input)
             IN IF r.ret = EndOfInput THEN POk(FALSE, r.st, <<>>)
                ELSE PErr(FALSE, reset(r.st, checkpoint(input)), "unexpected non-eof")

\* the definitions parsed and nothing asked of what follows them
parse_query_without_eof ==
    parse_stream(map(many1(parser("definition")), "Document"), new)

\* parse_query on the text in buf: the result of the whole parser, with the
\* stream it ends on
parse_query ==
    parse_stream(skip(map(many1(parser("definition")), "Document"), eof), new)

-----------------------------------------------------------------------------
(* The caller's view: the results uncons will return from stream st on,    *)
(* up to and including the first failure.                                  *)

RECURSIVE TokensFrom(_)
TokensFrom(st) ==
    LET r == uncons(st)
    IN IF r.ret.ok THEN <<r.ret>> \o TokensFrom(r.st) ELSE <<r.ret>>

-----------------------------------------------------------------------------
(* Source texts *)

Texts(alphabet, n) == UNION {[1..k -> alphabet] : k \in 0..n}

MaxLen == 3

LexAlphabet == {"a", "1", "{", " ", "\n", "#", BOM}

NoCheckpoint == [none |-> TRUE]

NoMark == [none |-> TRUE]

-----------------------------------------------------------------------------
(* The state machine of one TokenStream and its caller *)

Start(texts) ==
    /\ buf \in texts
    /\ \E st \in {new} : off = st.off /\ position = st.position
    /\ saved = NoCheckpoint
    /\ mark = NoMark
    /\ result = [op |-> "new"]

Init == Start(Texts(LexAlphabet, MaxLen))

Uncons ==
    LET r == uncons(Stream)
    IN /\ off' = r.st.off
       /\ position' = r.st.position
       /\ result' = [op |-> "uncons", from |-> Stream, ret |-> r.ret]
       /\ UNCHANGED <<buf, saved, mark>>

Checkpoint ==
    /\ saved' = checkpoint(Stream)
    /\ mark' = [stream |-> Stream, future |-> TokensFrom(Stream)]
    /\ result' = [op |-> "checkpoint"]
    /\ UNCHANGED <<buf, off, position>>

Reset ==
    /\ saved # NoCheckpoint
    /\ off' = reset(Stream, saved).off
    /\ position' = reset(Stream, saved).position
    /\ result' = [op |-> "reset", from |-> Stream]
    /\ UNCHANGED <<buf, saved, mark>>

Next == Uncons \/ Checkpoint \/ Reset

Spec == Init /\ [][Next]_vars

-----------------------------------------------------------------------------
(* Checkpoint and reset *)

\* C2: after reset(c) the byte offset and the position are exactly those of
\* the stream when c was taken, whatever uncons calls came in between, and
\* the tokens and errors uncons returns from there on are those it would
\* have returned then.
C2_ResetRestores ==
    result.op = "reset" =>
        /\ off = mark.stream.off
        /\ position = mark.stream.position
        /\ TokensFrom(Stream) = mark.future

\* a reset that undoes an excursion which crossed a line break
C2_Witness ==
    /\ result.op = "reset"
    /\ result.from.off > off
    /\ result.from.position.line > position.line
    /\ Len(mark.future) >= 2

-----------------------------------------------------------------------------
(* Numeric literals: texts that start a number *)

MaxNumTail == 5

NumAlphabet == {"0", "1", "-", ".", "e", "E", "+", ","}

InitNum ==
    Start({<<c>> \o t : c \in {"0", "1", "-"}, t \in Texts(NumAlphabet, MaxNumTail)})

SpecNum == InitNum /\ [][Uncons]_vars

Whitespace == {" ", "\t", "\n", "\r"}

\* the numeric lexeme at the head of s: the run up to the next whitespace,
\* comma, "#", punctuator character or the end
Lexeme(s) ==
    LET stops == {i \in 1..Len(s) : s[i] \in Whitespace \cup {",", "#"} \cup Punct1}
    IN IF stops = {} THEN s
       ELSE Prefix(s, (CHOOSE i \in stops : \A j \in stops : i <= j) - 1)

HasMarker(lexeme) == \E i \in 1..Len(lexeme) : lexeme[i] \in {".", "e", "E"}

\* "0", "-0", or an optional "-", a non-zero digit, then digits only
IntShape(lexeme) ==
    LET body == IF StartsWith(lexeme, <<"-">>) THEN Drop(lexeme, 1) ELSE lexeme
    IN \/ body = <<"0">>
       \/ /\ Len(body) >= 1
          /\ body[1] \in Digits \ {"0"}
          /\ AllDigits(body)

FractionShape(f) == Len(f) >= 2 /\ f[1] = "." /\ AllDigits(Drop(f, 1))

ExponentShape(x) ==
    /\ Len(x) >= 3
    /\ x[1] \in {"e", "E"}
    /\ x[2] \in {"+", "-"}
    /\ AllDigits(Drop(x, 2))

\* integer part, then an optional fraction, then an optional exponent, at
\* least one of the two present
FloatShape(lexeme) ==
    \E i \in 1..Len(lexeme), j \in 1..Len(lexeme) :
        /\ i <= j
        /\ IntShape(Prefix(lexeme, i))
        /\ i = j \/ FractionShape(SubSeq(lexeme, i + 1, j))
        /\ j = Len(lexeme) \/ ExponentShape(Drop(lexeme, j))
        /\ i < Len(lexeme)

\* the last call was an uncons with the cursor at a digit or "-"
UnconsAtNumber ==
    /\ result.op = "uncons"
    /\ Rest(result.from.off) # <<>>
    /\ Rest(result.from.off)[1] \in Digits \cup {"-"}

LexicalError(ret) == ~ret.ok /\ ret # EndOfInput

\* C3: at a digit or "-", when the numeric lexeme holds no ".", "e" or "E",
\* uncons returns an IntValue token spanning exactly the lexeme if and only
\* if the lexeme has the integer shape, and a lexical error otherwise.
C3_IntValueShape ==
    LET lexeme == Lexeme(Rest(result.from.off))
    IN (UnconsAtNumber /\ ~HasMarker(lexeme)) =>
           IF IntShape(lexeme)
           THEN result.ret = [ok |-> TRUE, kind |-> "IntValue", value |-> lexeme]
           ELSE LexicalError(result.ret)

\* a negative integer of several digits, cut off by a delimiter
C3_Witness ==
    /\ UnconsAtNumber
    /\ result.ret.ok
    /\ result.ret.kind = "IntValue"
    /\ result.ret.value = <<"-", "1", "0">>
    /\ Len(Rest(result.from.off)) > Len(result.ret.value)

\* C4: at a digit or "-", when the numeric lexeme holds a ".", "e" or "E",
\* uncons returns a FloatValue token spanning exactly the lexeme if and only
\* if the lexeme is an integer part, then optionally "." and digits, then
\* optionally "e" or "E", a sign and digits; a lexical error otherwise.
C4_FloatValueShape ==
    LET lexeme == Lexeme(Rest(result.from.off))
    IN (UnconsAtNumber /\ HasMarker(lexeme)) =>
           IF FloatShape(lexeme)
           THEN result.ret = [ok |-> TRUE, kind |-> "FloatValue", value |-> lexeme]
           ELSE LexicalError(result.ret)

\* a float with a fraction and an exponent
C4_Witness ==
    /\ UnconsAtNumber
    /\ result.ret.ok
    /\ result.ret.kind = "FloatValue"
    /\ result.ret.value = <<"1", ".", "0", "E", "-", "1">>

-----------------------------------------------------------------------------
(* Insignificant content *)

MaxWsLen == 4

WsAlphabet == {BOM, "\t", " ", "\r", "\n", ",", "#", "a"}

InitWs == Start(Texts(WsAlphabet, MaxWsLen))

SpecWs == InitWs /\ [][Uncons]_vars

\* character i of s lies in a comment: a "#" before it, no line end between
InComment(s, i) ==
    \E j \in 1..(i - 1) :
        /\ s[j] = "#"
        /\ \A m \in (j + 1)..(i - 1) : s[m] \notin {"\r", "\n"}

Insignificant(s) ==
    \A i \in 1..Len(s) :
        \/ s[i] \in {BOM, "\t", " ", "\r", "\n", ",", "#"}
        \/ InComment(s, i)

\* C6: on a text made only of insignificant content the first uncons of a
\* fresh TokenStream returns end of input.
C6_InsignificantOnly ==
    (result.op = "uncons" /\ result.from = new /\ Insignificant(buf)) =>
        result.ret = EndOfInput

\* a comment with text in it, ended by a line break, among other fillers
C6_Witness ==
    /\ result.op = "uncons"
    /\ result.from = new
    /\ Insignificant(buf)
    /\ \E i \in 1..Len(buf) : buf[i] = "a"
    /\ \E i \in 2..Len(buf) : buf[i] = "\n" /\ i < Len(buf)
    /\ result.ret = EndOfInput

-----------------------------------------------------------------------------
(* String literals: texts that start with a quote *)

MaxStrTail == 9

StrAlphabet == {"\"", "\\", "a"}

InitStr == Start({<<"\"">> \o t : t \in Texts(StrAlphabet, MaxStrTail)})

SpecStr == InitStr /\ [][Uncons]_vars

\* the 1-based indexes, after the opening quote, of the quotes of s whose
\* previous character is not a backslash
Terminators(s) == {k \in 2..Len(s) : s[k] = "\"" /\ s[k - 1] # "\\"}

Least(set) == CHOOSE i \in set : \A j \in set : i <= j

\* the last call was an uncons with the cursor at a quote that does not
\* start a triple quote
UnconsAtString ==
    /\ result.op = "uncons"
    /\ StartsWith(Rest(result.from.off), <<"\"">>)
    /\ ~StartsWith(Rest(result.from.off), TripleQuote)

\* C8: at a quote that is not the start of a triple quote, when a quote not
\* preceded by a backslash follows, uncons returns one StringValue token
\* from the opening quote through the first such quote.
C8_StringToken ==
    LET s == Rest(result.from.off)
    IN (UnconsAtString /\ Terminators(s) # {}) =>
           result.ret = [ok |-> TRUE, kind |-> "StringValue",
                         value |-> Prefix(s, Least(Terminators(s)))]

\* a string that holds an escaped quote
C8_Witness ==
    /\ UnconsAtString
    /\ result.ret.ok
    /\ result.ret.kind = "StringValue"
    /\ \E k \in 3..(Len(result.ret.value) - 1) :
           result.ret.value[k] = "\"" /\ result.ret.value[k - 1] = "\\"

\* C9: at a quote that is not the start of a triple quote, when no
\* terminating quote follows, uncons returns an error and no token.
C9_UnterminatedString ==
    LET s == Rest(result.from.off)
    IN (UnconsAtString /\ Terminators(s) = {}) => LexicalError(result.ret)

\* the last call was an uncons with the cursor at a triple quote
UnconsAtBlockString ==
    /\ result.op = "uncons"
    /\ StartsWith(Rest(result.from.off), TripleQuote)

\* the 0-based indexes in tail of every triple quote, overlapping or not
Occurrences(tail) ==
    {i \in 0..(Len(tail) - 3) : SubSeq(tail, i + 1, i + 3) = TripleQuote}

NotEscaped(tail, i) == i = 0 \/ tail[i] # "\\"

\* what uncons returns at a triple quote when the closing one is to be the
\* least of ends, or an error when ends is empty
BlockStringResult(s, ends) ==
    IF ends = {}
    THEN Err("unterminated block string value")
    ELSE [ok |-> TRUE, kind |-> "BlockString",
          value |-> Prefix(s, 3 + Least(ends) + 3)]

\* C10 as stated: the token ends with the first triple quote, among all
\* occurrences, that no backslash precedes, and the error is returned if and
\* only if there is none.
C10_AnyOccurrence ==
    LET s == Rest(result.from.off)
        tail == Drop(s, 3)
    IN UnconsAtBlockString =>
           result.ret = BlockStringResult(s,
               {i \in Occurrences(tail) : NotEscaped(tail, i)})

\* the occurrences a left-to-right scan finds when it resumes after the
\* three quotes of each one found: an occurrence counts unless one of the
\* two places before it counts
RECURSIVE Scanned(_, _)
Scanned(tail, i) ==
    /\ i \in Occurrences(tail)
    /\ ~Scanned(tail, i - 1)
    /\ ~Scanned(tail, i - 2)

\* C10, amended: the token ends with the first triple quote, among the
\* non-overlapping occurrences of a left-to-right scan, that no backslash
\* precedes, and the error "unterminated block string value" is returned if
\* and only if the scan finds none.
C10_ScannedOccurrence ==
    LET s == Rest(result.from.off)
        tail == Drop(s, 3)
    IN UnconsAtBlockString =>
           result.ret = BlockStringResult(s,
               {i \in Occurrences(tail) : Scanned(tail, i) /\ NotEscaped(tail, i)})

\* a block string closed after an escaped triple quote that is followed at
\* once by the closing one
C10_Witness ==
    /\ UnconsAtBlockString
    /\ result.ret.ok
    /\ result.ret.kind = "BlockString"
    /\ result.ret.value = TripleQuote \o <<"\\">> \o TripleQuote \o TripleQuote


-----------------------------------------------------------------------------
(* Documents *)

\* the words of a text, one space between two words
RECURSIVE Join(_)
Join(words) ==
    IF words = <<>> THEN <<>>
    ELSE IF Len(words) = 1 THEN words[1]
    ELSE words[1] \o <<" ">> \o Join(Tail(words))

MaxDocWords == 4

DocWords == {<<"{">>, <<"}">>, <<"a">>, <<",">>}

SampleDocs ==
    {<<"q", "u", "e", "r", "y", " ", "a", " ", "{", " ", "a", " ", "}">>,
     <<"m", "u", "t", "a", "t", "i", "o", "n", " ", "{", " ", "a", " ", "(", " ", "a", " ", ":", " ", "1", " ", ")", " ", "}">>,
     <<"s", "u", "b", "s", "c", "r", "i", "p", "t", "i", "o", "n", " ", "a", " ", "(", " ", "$", " ", "a", " ", ":", " ", "a", " ", "=", " ", "1", " ", ")", " ", "{", " ", "a", " ", "}">>,
     <<"f", "r", "a", "g", "m", "e", "n", "t", " ", "a", " ", "o", "n", " ", "a", " ", "{", " ", "a", " ", "}">>,
     <<"{", " ", ".", ".", ".", " ", "o", "n", " ", "a", " ", "{", " ", "a", " ", "}", " ", "}">>,
     <<"{", " ", "a", " ", ":", " ", "a", " ", "@", " ", "a", " ", "{", " ", ".", ".", ".", " ", "a", " ", "}", " ", "}">>,
     <<"{", " ", "a", " ", "(", " ", "a", " ", ":", " ", "\"", "a", "\"", " ", ")", " ", "}">>,
     <<"{", " ", "a", " ", "(", " ", "a", " ", ":", " ", "$", "a", " ", ")", " ", "}">>,
     <<"{", " ", "a", " ", "(", " ", "a", " ", ":", " ", "\"", "\"", "\"", "a", "\"", "\"", "\"", " ", ")", " ", "}">>}

Trailers ==
    {<<>>,
     <<"a">>,
     <<"{">>,
     <<"}">>,
     <<".">>,
     <<",">>,
     <<"#", " ", "a">>,
     <<"1">>,
     <<"\"", "a">>,
     <<"{", " ", "a", " ", "}">>,
     <<"{", " ", "a", " ", "}", " ", "a">>,
     <<"f", "r", "a", "g", "m", "e", "n", "t">>}

DocTexts ==
    {Join(w) : w \in Texts(DocWords, MaxDocWords)}
        \cup {Join(<<d, t>>) : d \in SampleDocs, t \in Trailers}

InitDoc == Start(DocTexts)

\* what a parser returned, without the stream
Returned(r) ==
    IF r.ok THEN [ok |-> TRUE, val |-> r.val]
    ELSE IF IsPanic(r) THEN [ok |-> FALSE, panic |-> TRUE, err |-> r.err]
    ELSE [ok |-> FALSE, err |-> r.err]

\* a parser was run on stream from and gave r: the caller has what it
\* returned, and the stream is where the parser left it
Ran(op, from, r) ==
    /\ result' = [op |-> op, from |-> from, ret |-> Returned(r)]
    /\ off' = r.st.off
    /\ position' = r.st.position
    /\ UNCHANGED <<buf, saved, mark>>

\* parse_query on the text
ParseQuery == result.op = "new" /\ Ran("parse_query", new, parse_query)

SpecDoc == InitDoc /\ [][ParseQuery]_vars

\* C1: parse_query returns a Document only when one or more definitions
\* consume every token of the text: a text with no token fails, a text with
\* anything left after the last definition fails, and a failure carries no
\* Document.
C1_WholeInput ==
    LET defs == parse_stream(many1(parser("definition")), new)
    IN result.op = "parse_query" =>
           /\ result.ret.ok =>
                  /\ defs.ok
                  /\ result.ret.val = [definitions |-> defs.val]
                  /\ Len(result.ret.val.definitions) >= 1
                  /\ defs.st.off = ByteLen(buf)
                  /\ off = ByteLen(buf)
           /\ uncons(new).ret = EndOfInput => ~result.ret.ok
           /\ (defs.ok /\ uncons(defs.st).ret # EndOfInput) => ~result.ret.ok
           /\ ~result.ret.ok => "val" \notin DOMAIN result.ret

\* two definitions parsed, a name left over, and the call fails
C1_Witness ==
    LET defs == parse_stream(many1(parser("definition")), new)
    IN /\ result.op = "parse_query"
       /\ defs.ok
       /\ Len(defs.val) = 2
       /\ uncons(defs.st).ret.ok
       /\ uncons(defs.st).ret.kind = "Name"
       /\ ~result.ret.ok

-----------------------------------------------------------------------------
(* Selections that start with the spread punctuator *)

MaxSelWords == 5

SelWords == {<<"o", "n">>, <<"a">>, <<"@">>, <<"{">>, <<"}">>}

SelTexts == {Join(<<<<".", ".", ".">>>> \o w) : w \in Texts(SelWords, MaxSelWords)}

InitSel == Start(SelTexts)

\* selection on the stream
Selection == result.op = "new" /\ Ran("selection", Stream, parse_stream(selection, Stream))

SpecSel == InitSel /\ [][Selection]_vars

\* the token after the spread punctuator the selection started at, the
\* stream after that token, and the token after that
AfterSpread == uncons(uncons(result.from).st)

SecondAfterSpread == uncons(AfterSpread.st)

IsPunct(ret, puncts) == ret.ok /\ ret.kind = "Punctuator" /\ ret.value \in puncts

\* C7: after the spread punctuator, the name on gives an inline fragment
\* with the type condition On(the next name) or a failure; @ or { gives an
\* inline fragment with no type condition; any other name gives a fragment
\* spread of that name with the directives that follow it, read from the
\* token after the punctuator, and a failure exactly when those directives
\* fail.
C7_AfterSpread ==
    LET next == AfterSpread.ret
        ret == result.ret
        follow == parse_stream(directives, AfterSpread.st)
    IN result.op = "selection" =>
           /\ (next.ok /\ next.kind = "Name" /\ next.value = <<"o", "n">> /\ ret.ok) =>
                  /\ ret.val.tag = "InlineFragment"
                  /\ SecondAfterSpread.ret.ok
                  /\ SecondAfterSpread.ret.kind = "Name"
                  /\ ret.val.type_condition = Some([On |-> SecondAfterSpread.ret.value])
           /\ (IsPunct(next, {<<"@">>, <<"{">>}) /\ ret.ok) =>
                  /\ ret.val.tag = "InlineFragment"
                  /\ ret.val.type_condition = None
           /\ (next.ok /\ next.kind = "Name" /\ next.value # <<"o", "n">>) =>
                  /\ ret.ok = follow.ok
                  /\ ret.ok =>
                         /\ ret.val = [tag |-> "FragmentSpread",
                                       fragment_name |-> next.value,
                                       directives |-> follow.val]
                         /\ off = follow.st.off
                         /\ position = follow.st.position

\* a fragment spread with a directive, found after the inline fragment was
\* tried on the same tokens
C7_Witness ==
    /\ result.op = "selection"
    /\ result.ret.ok
    /\ result.ret.val.tag = "FragmentSpread"
    /\ result.ret.val.fragment_name = <<"a">>
    /\ Len(result.ret.val.directives) = 1

-----------------------------------------------------------------------------
(* Integer literals in value positions *)

MaxIntLen == 3

IntAlphabet == {"-", "0", "1", "2", "3", "5", "6", "7"}

Literals == Texts(IntAlphabet, MaxIntLen) \ {<<>>}

ListOpen == <<"[", " ", "1", " ">>

ListClose == <<" ", "]">>

ObjectOpen == <<"{", " ", "a", " ", ":", " ">>

ObjectClose == <<" ", "}">>

ArgumentOpen == <<"{", " ", "a", " ", "(", " ", "a", " ", ":", " ">>

ArgumentClose == <<" ", ")", " ", "}">>

DefaultOpen ==
    <<"q", "u", "e", "r", "y", " ", "(", " ", "$", "a", " ", ":", " ", "a", " ", "=", " ">>

DefaultClose == <<" ", ")", " ", "{", " ", "a", " ", "}">>

IntTexts ==
    Literals
        \cup {ListOpen \o l \o ListClose : l \in Literals}
        \cup {ObjectOpen \o l \o ObjectClose : l \in Literals}
        \cup {ArgumentOpen \o l \o ArgumentClose : l \in Literals}
        \cup {DefaultOpen \o l \o DefaultClose : l \in Literals}

InitInt == Start(IntTexts)

\* value on the stream
Value == result.op = "new" /\ Ran("value", Stream, parse_stream(value, Stream))

\* default_value on the stream
DefaultValue ==
    result.op = "new" /\ Ran("default_value", Stream, parse_stream(default_value, Stream))

NextInt == Value \/ DefaultValue \/ ParseQuery

SpecInt == InitInt /\ [][NextInt]_vars

NumberTooLarge == "number too large to fit in target type"

NumberTooSmall == "number too small to fit in target type"

\* the value digits write in base ten
RECURSIVE Decimal(_)
Decimal(digits) ==
    IF digits = <<>> THEN 0
    ELSE 10 * Decimal(SubSeq(digits, 1, Len(digits) - 1)) + DigitValue(digits[Len(digits)])

\* the mathematical value of an integer literal
MathValue(lit) == IF Head(lit) = "-" THEN -Decimal(Tail(lit)) ELSE Decimal(lit)

\* the text is a literal between open and close
Within(open, close) ==
    /\ Len(buf) > Len(open) + Len(close)
    /\ StartsWith(buf, open)
    /\ EndsWith(buf, close)

Literal(open, close) == SubSeq(buf, Len(open) + 1, Len(buf) - Len(close))

\* what uncons returns with the cursor after open
TokenAfter(open) ==
    uncons([off |-> ByteLen(open), position |-> [line |-> 1, column |-> Len(open) + 1]]).ret

\* the values returned around the value v of the literal
InList(v) == [ListValue |-> <<[Int |-> 1], v>>]

InObject(v) == [ObjectValue |-> << <<(<<"a">>), v>> >>]

TheField(args) ==
    [tag |-> "Field",
     field |-> [name |-> <<"a">>, alias |-> None, arguments |-> args,
                directives |-> <<>>, selection_set |-> empty_selection]]

InArgument(v) ==
    [definitions |->
        <<[Operation |->
            [SelectionSet |-> [items |-> <<TheField(<< <<(<<"a">>), v>> >>)>>]]]>>]

InDefault(v) ==
    [definitions |->
        <<[Operation |->
            [Query |-> [name |-> None,
                        selection_set |-> [items |-> <<TheField(<<>>)>>],
                        variable_definitions |->
                            <<[name |-> <<"a">>,
                               var_type |-> [NamedType |-> <<"a">>],
                               default_value |-> Some(v)]>>,
                        directives |-> <<>>]]]>>]

\* when tok is the IntValue token of lit: the value expected if lit fits the
\* integer, and otherwise an error value, with the message tooSmall when
\* lit is below the range
Outcome(tok, lit, expected, tooSmall) ==
    tok = [ok |-> TRUE, kind |-> "IntValue", value |-> lit] =>
        IF MathValue(lit) \in IntMin..IntMax
        THEN result.ret = [ok |-> TRUE, val |-> expected]
        ELSE result.ret = [ok |-> FALSE,
                           err |-> IF MathValue(lit) > IntMax THEN NumberTooLarge
                                   ELSE tooSmall]

\* the integer literals of the texts, each in its value position: alone, in
\* a list and in an object for value, alone and in a list for
\* default_value, as an argument and as a default for parse_query
InValuePositions(tooSmall) ==
    /\ (result.op \in {"value", "default_value"} /\ buf \in Literals) =>
           Outcome(TokenAfter(<<>>), buf, [Int |-> MathValue(buf)], tooSmall)
    /\ (result.op \in {"value", "default_value"} /\ Within(ListOpen, ListClose)) =>
           Outcome(TokenAfter(ListOpen), Literal(ListOpen, ListClose),
                   InList([Int |-> MathValue(Literal(ListOpen, ListClose))]), tooSmall)
    /\ (result.op = "value" /\ Within(ObjectOpen, ObjectClose)) =>
           Outcome(TokenAfter(ObjectOpen), Literal(ObjectOpen, ObjectClose),
                   InObject([Int |-> MathValue(Literal(ObjectOpen, ObjectClose))]), tooSmall)
    /\ (result.op = "parse_query" /\ Within(ArgumentOpen, ArgumentClose)) =>
           Outcome(TokenAfter(ArgumentOpen), Literal(ArgumentOpen, ArgumentClose),
                   InArgument([Int |-> MathValue(Literal(ArgumentOpen, ArgumentClose))]),
                   tooSmall)
    /\ (result.op = "parse_query" /\ Within(DefaultOpen, DefaultClose)) =>
           Outcome(TokenAfter(DefaultOpen), Literal(DefaultOpen, DefaultClose),
                   InDefault([Int |-> MathValue(Literal(DefaultOpen, DefaultClose))]),
                   tooSmall)

\* C5 as stated: an IntValue token in a value position gives Int(n), n the
\* mathematical value of the literal, when that value fits the integer, and
\* otherwise the error value "number too large"; never another integer and
\* never an abort.
C5_NumberTooLarge == InValuePositions(NumberTooLarge)

\* C5, amended: an IntValue token in a value position gives Int(n), n the
\* mathematical value of the literal, when that value fits the integer;
\* otherwise the call returns an error value, "number too large" when the
\* literal is above the range and "number too small" when it is below;
\* never another integer and never an abort.
C5_RangeError == InValuePositions(NumberTooSmall)

\* parse_query on an argument one below the least integer
C5_Witness ==
    /\ result.op = "parse_query"
    /\ Within(ArgumentOpen, ArgumentClose)
    /\ result.ret = [ok |-> FALSE, err |-> NumberTooSmall]
    /\ MathValue(Literal(ArgumentOpen, ArgumentClose)) = IntMin - 1

-----------------------------------------------------------------------------
(* Operations *)

Keywords ==
    {<<"q", "u", "e", "r", "y">>,
     <<"m", "u", "t", "a", "t", "i", "o", "n">>,
     <<"s", "u", "b", "s", "c", "r", "i", "p", "t", "i", "o", "n">>}

\* an operation with no name, and one named a
OpNames == {<<>>, <<(<<"a">>)>>}

\* a parenthesis pair with nothing in it, written with and without a space
EmptyParens == {<<(<<"(">>), (<<")">>)>>, <<(<<"(", ")">>)>>}

VariableLists ==
    {<<>>,
     <<(<<"(">>), (<<"$", "a">>), (<<":">>), (<<"a">>), (<<")">>)>>,
     <<(<<"(">>), (<<"$", "a">>), (<<":">>), (<<"a">>), (<<"=">>), (<<"1">>), (<<")">>)>>,
     <<(<<"(">>)>>,
     <<(<<"(">>), (<<"$", "a">>), (<<")">>)>>} \cup EmptyParens

MaxOpFields == 3

\* k fields a
Fields(k) == [i \in 1..k |-> <<"a">>]

OpSelections ==
    {<<(<<"{">>)>> \o Fields(k) \o <<(<<"}">>)>> : k \in 0..MaxOpFields}
        \cup {<<(<<"{">>)>> \o Fields(k) : k \in 0..MaxOpFields}

OpText(kw, nm, list, sel) == Join(<<kw>> \o nm \o list \o sel)

OpTexts ==
    {OpText(kw, nm, list, sel) :
        kw \in Keywords, nm \in OpNames, list \in VariableLists, sel \in OpSelections}

InitOp == Start(OpTexts)

SpecOp == InitOp /\ [][ParseQuery]_vars

\* the document of one operation kw with k fields a, no variable definitions
\* and no directives
OperationOf(kw, nm, k) ==
    LET operation == [name |-> IF nm = <<>> THEN None ELSE Some(nm[1]),
                      selection_set |-> [items |-> [i \in 1..k |-> TheField(<<>>)]],
                      variable_definitions |-> <<>>,
                      directives |-> <<>>]
    IN [definitions |->
           <<[Operation |->
                 CASE kw[1] = "q" -> [Query |-> operation]
                   [] kw[1] = "m" -> [Mutation |-> operation]
                   [] kw[1] = "s" -> [Subscription |-> operation]]>>]

\* parse_query on an operation written with parens gives what the operation
\* without parentheses is expected to give
SameAsAbsent(parens) ==
    \A kw \in Keywords, nm \in OpNames, k \in 1..MaxOpFields :
        (/\ result.op = "parse_query"
         /\ buf = OpText(kw, nm, parens, <<(<<"{">>)>> \o Fields(k) \o <<(<<"}">>)>>)) =>
            result.ret = [ok |-> TRUE, val |-> OperationOf(kw, nm, k)]

\* C11: an operation with an empty parenthesis pair is accepted, and its
\* document is that of the operation without the parentheses: the variable
\* definitions are empty.
C11_EmptyParens == \A parens \in EmptyParens : SameAsAbsent(parens)

-----------------------------------------------------------------------------
(* Escapes: string literals with every escape letter *)

MaxEscLen == 3

EscAlphabet == {"\\", "\"", "/", "b", "f", "n", "r", "t", "u", "a"}

InitEsc == Start({<<"\"">> \o t \o <<"\"">> : t \in Texts(EscAlphabet, MaxEscLen)})

\* string_value on the stream
StringValue ==
    result.op = "new" /\ Ran("string_value", Stream, parse_stream(string_value, Stream))

SpecEsc == InitEsc /\ [][StringValue]_vars

Backspace == "U+0008"

\* the character an escape letter stands for, "" when it stands for none
Escaped(e) ==
    CASE e \in {"\"", "\\", "/"} -> e
      [] e = "b" -> Backspace
      [] e = "f" -> FormFeed
      [] e = "n" -> "\n"
      [] e = "r" -> "\r"
      [] e = "t" -> "\t"
      [] OTHER -> ""

\* the positions of chars that hold a backslash starting an escape: one
\* that is not itself the escaped character of the escape before it
RECURSIVE Escapes(_, _)
Escapes(chars, i) ==
    IF i > Len(chars) THEN {}
    ELSE IF chars[i] = "\\" THEN {i} \cup Escapes(chars, i + 2)
    ELSE Escapes(chars, i + 1)

\* chars with each escape replaced by its character
RECURSIVE Replaced(_, _)
Replaced(chars, i) ==
    IF i > Len(chars) THEN <<>>
    ELSE IF chars[i] = "\\" THEN <<Escaped(chars[i + 1])>> \o Replaced(chars, i + 2)
    ELSE <<chars[i]>> \o Replaced(chars, i + 1)

\* the last call was string_value with a StringValue token first on the
\* stream
AtStringValue ==
    /\ result.op = "string_value"
    /\ uncons(result.from).ret.ok
    /\ uncons(result.from).ret.kind = "StringValue"

\* C12: string_value on a StringValue token removes the quotes, copies the
\* characters that no backslash precedes and replaces each escape: the quote,
\* the backslash and the slash by themselves, b by backspace U+0008, f by
\* form feed, n, r and t by newline, carriage return and tab; when another
\* character is escaped the call returns a decode error.
C12_Unescape ==
    AtStringValue =>
        LET tok == uncons(result.from).ret.value
            chars == SubSeq(tok, 2, Len(tok) - 1)
        IN IF \A i \in Escapes(chars, 1) : i < Len(chars) /\ Escaped(chars[i + 1]) # ""
           THEN result.ret = [ok |-> TRUE, val |-> [String |-> Replaced(chars, 1)]]
           ELSE ~result.ret.ok /\ ~("panic" \in DOMAIN result.ret)

-----------------------------------------------------------------------------
(* Positions: texts with line breaks, characters of several bytes, comments *)
(* and block strings                                                        *)

MaxPieces == 4

Pieces == {TripleQuote, <<"\n">>, <<"\r">>, <<"a">>, <<" ">>, <<"#">>, <<EAcute>>, <<BOM>>}

RECURSIVE Concat(_)
Concat(pieces) == IF pieces = <<>> THEN <<>> ELSE Head(pieces) \o Concat(Tail(pieces))

InitPos == Start({Concat(w) : w \in Texts(Pieces, MaxPieces)})

SpecPos == InitPos /\ [][Next]_vars

\* buf[0..off]
Consumed == Prefix(buf, CharCount(buf, off))

\* the index in s of its last newline, 0 when it has none
LastNewline(s) ==
    LET at == {i \in 1..Len(s) : s[i] = "\n"}
    IN IF at = {} THEN 0 ELSE CHOOSE i \in at : \A j \in at : j <= i

\* C13: in every state of a stream (after new, after uncons calls, after a
\* reset to a checkpoint of the stream) the line is 1 plus the number of
\* newlines in buf[0..off], and the column is 1 plus the number of
\* characters from the last newline before off, or from the start of the
\* input, to off.
C13_PositionOfOffset ==
    /\ position.line = 1 + Count(Consumed, "\n")
    /\ position.column = 1 + Len(Consumed) - LastNewline(Consumed)

\* after a reset, on a later line, past a character of several bytes
C13_Witness ==
    /\ result.op = "reset"
    /\ result.from.off > off
    /\ position.line > 1
    /\ position.column > 1
    /\ ByteLen(Consumed) > Len(Consumed)

-----------------------------------------------------------------------------
(* A failed uncons *)

\* parsers that read one token, alone and as the alternatives of an or
FirstToken ==
    {name, kind("IntValue"), punct(<<"{">>), or(name, kind("StringValue"))}

\* C14: an uncons that fails, with a lexical error or with end of input,
\* leaves the byte offset and the position as they were; the next uncons
\* returns the same error, and a parser that fails on this first token ends
\* with nothing consumed and the stream where it was.
C14_FailedUncons ==
    (result.op = "uncons" /\ ~result.ret.ok) =>
        /\ off = result.from.off
        /\ position = result.from.position
        /\ uncons(Stream) = [ret |-> result.ret, st |-> result.from]
        /\ \A p \in FirstToken :
               parse_stream(p, result.from) = PErr(FALSE, result.from, result.ret.err)

\* an uncons that failed with a lexical error after some tokens
C14_Witness ==
    /\ result.op = "uncons"
    /\ LexicalError(result.ret)
    /\ off > 0
    /\ off < ByteLen(buf)
    /\ position.line > 1

-----------------------------------------------------------------------------
(* Lexing to the end: texts with a token of every kind, read by uncons    *)
(* calls alone                                                             *)

MaxLexPieces == 3

LexPieces ==
    {TripleQuote, <<".", ".", ".">>, <<"a">>, <<"1">>, <<".">>, <<"{">>, <<"\"">>,
     <<" ">>, <<"#">>, <<"\n">>, <<EAcute>>}

InitLex == Start({Concat(w) : w \in Texts(LexPieces, MaxLexPieces)})

\* the caller keeps calling uncons
SpecLex == InitLex /\ [][Uncons]_vars /\ WF_vars(Uncons)

\* the last call was an uncons that returned a token
Succeeded == result.op = "uncons" /\ result.ret.ok

\* the last call was an uncons that returned end of input or a lexical error
Failed == result.op = "uncons" /\ ~result.ret.ok

\* C15: every successful uncons returns a token with a non-empty text and
\* strictly increases the byte offset, the offset never exceeds the length
\* of the input, and repeated uncons calls reach end of input or a lexical
\* error.
C15_LexingTerminates ==
    /\ [](/\ off <= ByteLen(buf)
          /\ Succeeded => /\ result.ret.value # <<>>
                          /\ off >= result.from.off + ByteLen(result.ret.value)
                          /\ off > result.from.off)
    /\ <>Failed

\* a successful uncons, after others, that took the last token of the input
C15_Witness ==
    /\ Succeeded
    /\ result.from.off > 0
    /\ off = ByteLen(buf)
    /\ result.from.off + ByteLen(result.ret.value) = off

=============================================================================
